---------------------------- MODULE Spec2Model ----------------------------
(***************************************************************************)
(* GameNews: the RSS aggregation pipeline (scripts/rss_parser.py) and the  *)
(* speech synthesis pipeline (scripts/generate_podcast.py).                *)
(*                                                                         *)
(* Strings are sequences of one-character strings, so that the text        *)
(* functions (clean_html, truncate_text, the title normalisation of        *)
(* remove_duplicates, strftime) are computed character by character.       *)
(***************************************************************************)
EXTENDS Integers, Sequences, FiniteSets, TLC

VARIABLES
    pc,             \* position of the running program: idle / collect / save / synth
    cat,            \* collect_all_news: index of the category being processed
    feed_idx,       \* collect_all_news: index of the next source of that category
    category_news,  \* collect_all_news: the category's merged items so far
    all_podcasts,   \* collect_all_news: the records produced so far
    podcast_id,     \* collect_all_news: the next id
    fetched,        \* the responses the sources gave in the current aggregation run
    podcasts_json,  \* the persisted store: [exists, content]
    texts,          \* texts/podcast_<id>.txt: id -> content, for the files that exist
    audio,          \* audio/podcast_<id>.mp3: id -> what it holds, for the files that exist
    podcasts,       \* generate_podcast.main: the loaded records
    idx,            \* generate_podcast.main: index of the next record
    success_count,  \* generate_podcast.main
    error_count,    \* generate_podcast.main
    run_log,        \* per record of the current synthesis run: what generate_audio did
    json_writes,    \* number of times the current synthesis run wrote podcasts.json
    phase,          \* a text function on its own: none / input / done
    arg,            \* a text function on its own: the input
    res             \* a text function on its own: the result

vars == <<pc, cat, feed_idx, category_news, all_podcasts, podcast_id, fetched,
          podcasts_json, texts, audio, podcasts, idx, success_count,
          error_count, run_log, json_writes,
          phase, arg, res>>

aggVars == <<cat, feed_idx, category_news, all_podcasts, podcast_id, fetched>>
fileVars == <<podcasts_json, texts, audio>>
synthVars == <<podcasts, idx, success_count, error_count, run_log, json_writes>>
pureVars == <<phase, arg, res>>

-----------------------------------------------------------------------------
(* Bounds of the model *)

\* tokens concatenated into an input of clean_html
MaxTokens == 3
\* items in an input of remove_duplicates
MaxItems == 3

\* the characters of audio a failing collaborator has written at most
MaxPart == 3

(* Program constants *)

MAX_NEWS_PER_CATEGORY == 5
\* truncate_text's default max_length
MaxLength == 500

-----------------------------------------------------------------------------
(* Characters and strings *)

Min(S) == CHOOSE x \in S : \A y \in S : x <= y
Max(S) == CHOOSE x \in S : \A y \in S : x >= y

LowerLetters == <<"a","b","c","d","e","f","g","h","i","j","k","l","m",
                  "n","o","p","q","r","s","t","u","v","w","x","y","z">>
UpperLetters == <<"A","B","C","D","E","F","G","H","I","J","K","L","M",
                  "N","O","P","Q","R","S","T","U","V","W","X","Y","Z">>
Digits == <<"0","1","2","3","4","5","6","7","8","9">>

Range(s) == {s[i] : i \in DOMAIN s}

\* \s of the re module, for the characters that occur here
IsSpace(c) == c \in {" ", "\t", "\n"}

\* \w of the re module: letters, digits and the underscore.  U+03B3 is the
\* letter gamma, which unescape produces from "&gamma;".
IsWord(c) == c \in Range(LowerLetters) \cup Range(UpperLetters)
                     \cup Range(Digits) \cup {"_", "U+03B3"}

\* str.lower() on one character
LowerChar(c) ==
    IF c \in Range(UpperLetters)
    THEN LowerLetters[CHOOSE i \in DOMAIN UpperLetters : UpperLetters[i] = c]
    ELSE c

\* str.lower()
lower(s) == [i \in DOMAIN s |-> LowerChar(s[i])]

\* str.strip()
strip(s) ==
    LET keep == {i \in DOMAIN s : ~IsSpace(s[i])}
    IN  IF keep = {} THEN <<>> ELSE SubSeq(s, Min(keep), Max(keep))

\* n copies of the character c
Rep(c, n) == [i \in 1..n |-> c]

-----------------------------------------------------------------------------
(* clean_html *)

\* re.sub(r'<[^>]+>', '', text): where the tag starting at i ends, 0 when no tag
\* starts at i ('<', at least one character other than '>', then '>')
TagEnd(s, i) ==
    LET closes == {j \in (i+1)..Len(s) : s[j] = ">"}
    IN  IF s[i] = "<" /\ closes # {} /\ Min(closes) >= i + 2
        THEN Min(closes) ELSE 0

\* the concatenation of pieces[lo], ..., pieces[hi]
RECURSIVE Flatten(_, _, _)
Flatten(pieces, lo, hi) ==
    IF lo > hi THEN <<>>
    ELSE IF lo = hi THEN pieces[lo]
    ELSE Flatten(pieces, lo, (lo + hi) \div 2)
            \o Flatten(pieces, ((lo + hi) \div 2) + 1, hi)

\* a tag never holds the start of another match: the tags are the stretches
\* from a '<' to the first '>' behind it
strip_tags(s) ==
    LET opens == {i \in DOMAIN s : TagEnd(s, i) # 0}
        in_tag(k) == \E i \in opens : i <= k /\ k <= TagEnd(s, i)
    IN  Flatten([k \in DOMAIN s |-> IF in_tag(k) THEN <<>> ELSE <<s[k]>>],
                1, Len(s))

\* html.entities.html5, restricted to the names spelled with the letters
\* a, b, g, l, m, p, t: <<name, replacement>>
Html5 == {
    <<<<"a","m","a","l","g",";">>, "U+2A3F">>,
    <<<<"a","m","p">>, "&">>,
    <<<<"a","m","p",";">>, "&">>,
    <<<<"a","p",";">>, "U+2248">>,
    <<<<"g","a","m","m","a",";">>, "U+03B3">>,
    <<<<"g","a","p",";">>, "U+2A86">>,
    <<<<"g","g",";">>, "U+226B">>,
    <<<<"g","g","g",";">>, "U+22D9">>,
    <<<<"g","l",";">>, "U+2277">>,
    <<<<"g","l","a",";">>, "U+2AA5">>,
    <<<<"g","t">>, ">">>,
    <<<<"g","t",";">>, ">">>,
    <<<<"l","a","p",";">>, "U+2A85">>,
    <<<<"l","a","t",";">>, "U+2AAB">>,
    <<<<"l","g",";">>, "U+2276">>,
    <<<<"l","l",";">>, "U+226A">>,
    <<<<"l","t">>, "<">>,
    <<<<"l","t",";">>, "<">>,
    <<<<"m","a","l","t",";">>, "U+2720">>,
    <<<<"m","a","p",";">>, "U+21A6">>,
    <<<<"m","p",";">>, "U+2213">>,
    <<<<"p","m",";">>, "U+00B1">> }

InHtml5(name) == \E e \in Html5 : e[1] = name
Html5Value(name) == (CHOOSE e \in Html5 : e[1] = name)[2]

\* a character the name of a character reference may hold: [^\t\n\f <&#;]
IsNameChar(c) == c \notin {"\t", "\n", "\f", " ", "<", "&", "#", ";"}

\* html.unescape's pattern &([^\t\n\f <&#;]{1,32};?) at the '&' at position i:
\* the position of the last character of the match, 0 when there is none
CharrefEnd(s, i) ==
    LET stops == {j \in (i+1)..Len(s) : ~IsNameChar(s[j])} \cup {Len(s) + 1}
        last  == Min({Min(stops) - 1, i + 32})
    IN  IF s[i] # "&" \/ last = i THEN 0
        ELSE IF last < Len(s) /\ s[last + 1] = ";" THEN last + 1
        ELSE last

\* html._replace_charref for a named reference: the whole name, else its longest
\* proper prefix of at least two characters that is a name, else the text itself
replace_charref(name) ==
    IF InHtml5(name) THEN <<Html5Value(name)>>
    ELSE LET xs == {x \in 2..(Len(name) - 1) : InHtml5(SubSeq(name, 1, x))}
         IN  IF xs # {}
             THEN <<Html5Value(SubSeq(name, 1, Max(xs)))>>
                      \o SubSeq(name, Max(xs) + 1, Len(name))
             ELSE <<"&">> \o name

\* html.unescape (named references; the inputs here hold no '#'): every
\* match is replaced, the other characters stay
unescape(s) ==
    LET refs == {i \in DOMAIN s : CharrefEnd(s, i) # 0}
        in_ref(k) == \E i \in refs : i < k /\ k <= CharrefEnd(s, i)
    IN  Flatten([k \in DOMAIN s |->
                    IF k \in refs
                    THEN replace_charref(SubSeq(s, k + 1, CharrefEnd(s, k)))
                    ELSE IF in_ref(k) THEN <<>>
                    ELSE <<s[k]>>],
                1, Len(s))

\* re.sub(r'\s+', ' ', text): the first character of a run of whitespace
\* becomes a space, the others go
collapse_spaces(s) ==
    Flatten([k \in DOMAIN s |->
                IF ~IsSpace(s[k]) THEN <<s[k]>>
                ELSE IF k > 1 /\ IsSpace(s[k - 1]) THEN <<>>
                ELSE <<" ">>],
            1, Len(s))

clean_html(text) ==
    IF text = <<>> THEN <<>>
    ELSE strip(collapse_spaces(unescape(strip_tags(text))))

-----------------------------------------------------------------------------
(* truncate_text *)

\* text.rsplit(' ', 1)[0]
rsplit_head(s) ==
    LET sp == {i \in DOMAIN s : s[i] = " "}
    IN  IF sp = {} THEN s ELSE SubSeq(s, 1, Max(sp) - 1)

truncate_text(text, max_length) ==
    IF Len(text) <= max_length THEN text
    ELSE rsplit_head(SubSeq(text, 1, max_length)) \o <<".", ".", ".">>

-----------------------------------------------------------------------------
(* parse_date *)

\* the decimal digits of n, zero-padded to width w
Pad(n, w) == [i \in 1..w |-> Digits[((n \div (10 ^ (w - i))) % 10) + 1]]

IsLeap(y) == (y % 4 = 0 /\ y % 100 # 0) \/ y % 400 = 0

DaysInMonth(y, m) ==
    IF m = 2 THEN (IF IsLeap(y) THEN 29 ELSE 28)
    ELSE IF m \in {4, 6, 9, 11} THEN 30 ELSE 31

\* whether datetime(y, m, d, ...) accepts the time tuple t = <<y, m, d>>
ValidTime(t) ==
    /\ t[1] \in 1..9999
    /\ t[2] \in 1..12
    /\ t[3] \in 1..DaysInMonth(t[1], t[2])

\* n in decimal, without padding
RECURSIVE Decimal(_)
Decimal(n) ==
    IF n < 10 THEN <<Digits[n + 1]>>
    ELSE Decimal(n \div 10) \o <<Digits[(n % 10) + 1]>>

\* dt.strftime('%Y-%m-%d'): the C library's %Y does not pad the year, so a
\* year below 1000 gives fewer than four digits; %m and %d have two digits
strftime(t) == Decimal(t[1]) \o <<"-">> \o Pad(t[2], 2) \o <<"-">> \o Pad(t[3], 2)

\* datetime.now(): the day of the run
Now == <<2024, 1, 11>>

\* published_parsed and updated_parsed are <<>> when absent, <<t>> when present
parse_date(entry) ==
    IF entry.published_parsed # <<>> /\ ValidTime(entry.published_parsed[1])
    THEN strftime(entry.published_parsed[1])
    ELSE IF entry.updated_parsed # <<>> /\ ValidTime(entry.updated_parsed[1])
    THEN strftime(entry.updated_parsed[1])
    ELSE strftime(Now)

\* ord() of the characters of a date string
Ord(c) ==
    IF c = "-" THEN 45
    ELSE 47 + (CHOOSE i \in DOMAIN Digits : Digits[i] = c)

\* a < b for two strings, as Python compares them: by code point, a proper
\* prefix first
StrLess(a, b) ==
    LET diff == {i \in 1..Min({Len(a), Len(b)}) : a[i] # b[i]}
    IN  IF diff = {} THEN Len(a) < Len(b)
        ELSE Ord(a[Min(diff)]) < Ord(b[Min(diff)])

-----------------------------------------------------------------------------
(* fetch_feed *)

\* dict.get(key, default): a key is <<>> when absent, <<value>> when present
Get(opt, default) == IF opt = <<>> THEN default ELSE opt[1]

Take(s, n) == SubSeq(s, 1, Min({n, Len(s)}))

\* the body of the loop over the entries: lines 201-218
news_item(entry, name) ==
    [title       |-> clean_html(Get(entry.title, <<>>)),
     description |-> truncate_text(
                         clean_html(Get(entry.summary,
                                        Get(entry.description, <<>>))),
                         MaxLength),
     date        |-> parse_date(entry),
     source      |-> name]

RECURSIVE news_of(_, _)
news_of(entries, name) ==
    IF entries = <<>> THEN <<>>
    ELSE IF clean_html(Get(Head(entries).title, <<>>)) = <<>>
         THEN news_of(Tail(entries), name)
    ELSE <<news_item(Head(entries), name)>> \o news_of(Tail(entries), name)

\* mutant: an entry that raises ends the loop and the items before it are kept
fetch_feed_partial(feed, name) ==
    IF feed.raises THEN <<>>
    ELSE IF feed.bozo /\ feed.entries = <<>> THEN <<>>
    ELSE LET taken == Take(feed.entries, MAX_NEWS_PER_CATEGORY * 2)
             bad   == {i \in DOMAIN taken : taken[i].raises}
         IN  IF bad # {} THEN news_of(SubSeq(taken, 1, Min(bad) - 1), name)
             ELSE news_of(taken, name)

\* feed is what feedparser.parse(url) gives: raises (the call raised), else
\* bozo and entries; an entry with raises set makes its processing raise
fetch_feed(feed, name) ==
    IF feed.raises THEN <<>>
    ELSE IF feed.bozo /\ feed.entries = <<>> THEN <<>>
    ELSE LET taken == Take(feed.entries, MAX_NEWS_PER_CATEGORY * 2)
         IN  IF \E i \in DOMAIN taken : taken[i].raises THEN <<>>
             ELSE news_of(taken, name)

-----------------------------------------------------------------------------
(* remove_duplicates *)

\* mutant: the underscore is dropped with the punctuation
strip_non_alnum(s) ==
    SelectSeq(s, LAMBDA c : (IsWord(c) /\ c # "_") \/ IsSpace(c))

\* re.sub(r'[^\w\s]', '', s)
strip_punctuation(s) == SelectSeq(s, LAMBDA c : IsWord(c) \/ IsSpace(c))

normalize_title(title) == strip_punctuation(strip(lower(title)))

RECURSIVE dedupe_from(_, _, _)
dedupe_from(news_list, i, seen_titles) ==
    IF i > Len(news_list) THEN <<>>
    ELSE LET normalized == normalize_title(news_list[i].title)
         IN  IF normalized \notin seen_titles
             THEN <<news_list[i]>>
                      \o dedupe_from(news_list, i + 1, seen_titles \cup {normalized})
             ELSE dedupe_from(news_list, i + 1, seen_titles)

remove_duplicates(news_list) == dedupe_from(news_list, 1, {})

-----------------------------------------------------------------------------
(* collect_all_news *)

\* the category names stand for "Турниры", "Релизы", "Обзоры", the source
\* names are those of the configuration (transliterated)
RSS_FEEDS == <<
    [category |-> "Turniry",
     feeds    |-> <<"Cyber.Sports.ru", "GoHa.ru - Kibersport">>],
    [category |-> "Relizy",
     feeds    |-> <<"StopGame - Novosti", "GoHa.ru - Obshchee">>],
    [category |-> "Obzory",
     feeds    |-> <<"StopGame - Obzory", "StopGame - Prevyu">>] >>

\* the names of all configured sources
SourceNames == UNION {Range(RSS_FEEDS[c].feeds) : c \in DOMAIN RSS_FEEDS}

\* list.sort(key=lambda x: x['date'], reverse=True): stable, so an item goes
\* behind every item whose date is not smaller
insert_desc(sorted, x) ==
    LET ahead == {i \in DOMAIN sorted : ~StrLess(sorted[i].date, x.date)}
        k     == Cardinality(ahead)
    IN  SubSeq(sorted, 1, k) \o <<x>> \o SubSeq(sorted, k + 1, Len(sorted))

RECURSIVE sort_from(_, _, _)
sort_from(list, i, sorted) ==
    IF i > Len(list) THEN sorted
    ELSE sort_from(list, i + 1, insert_desc(sorted, list[i]))

sort_by_date_desc(list) == sort_from(list, 1, <<>>)

\* f"audio/podcast_{podcast_id}.mp3"
AudioPath(id) == <<"audio/podcast_", id, ".mp3">>

\* lines 286-296
podcast_of(item, category, id) ==
    [id          |-> id,
     title       |-> item.title,
     category    |-> category,
     date        |-> item.date,
     audio       |-> <<>>,
     description |-> item.description,
     source      |-> item.source]

\* mutant: the list is not cut
select_news_uncut(news) == sort_by_date_desc(remove_duplicates(news))

\* lines 276-282
select_news(news) ==
    Take(sort_by_date_desc(remove_duplicates(news)), MAX_NEWS_PER_CATEGORY)

\* mutant: the numbering starts again in every category
podcasts_of_restart(news, category, first_id) ==
    [i \in 1..Len(news) |-> podcast_of(news[i], category, i)]

\* lines 285-298: the records of one category, numbered from first_id
podcasts_of(news, category, first_id) ==
    [i \in 1..Len(news) |-> podcast_of(news[i], category, first_id + i - 1)]

-----------------------------------------------------------------------------
(* What the sources serve *)

Entry(title, summary, published) ==
    [title            |-> <<title>>,
     summary          |-> <<summary>>,
     description      |-> <<>>,
     published_parsed |-> published,
     updated_parsed   |-> <<>>,
     raises           |-> FALSE]

Day(d) == <<<<2024, 1, d>>>>

\* feedparser.parse raised (a network error)
RaiseFeed == [raises |-> TRUE, bozo |-> FALSE, entries |-> <<>>]

\* an unparseable feed without entries
BozoFeed == [raises |-> FALSE, bozo |-> TRUE, entries |-> <<>>]

\* the second entry makes its processing raise (its title is no string)
BadEntryFeed ==
    [raises |-> FALSE, bozo |-> FALSE,
     entries |-> << Entry(<<"z">>, <<"s">>, Day(12)),
                    [Entry(<<"y">>, <<"s">>, Day(12)) EXCEPT !.raises = TRUE] >>]

\* twelve entries, two more than fetch_feed takes; six of the first ten
\* carry the newest date
BigFeed ==
    [raises |-> FALSE, bozo |-> FALSE,
     entries |-> << Entry(<<"a">>, <<"s">>, Day(10)),
                    Entry(<<"b">>, <<"s">>, Day(12)),
                    Entry(<<"c">>, <<"s">>, Day(11)),
                    Entry(<<"d">>, <<"s">>, Day(12)),
                    Entry(<<"e">>, <<"s">>, Day(12)),
                    Entry(<<"f">>, <<"s">>, Day(11)),
                    Entry(<<"g">>, <<"s">>, Day(12)),
                    Entry(<<"h">>, <<"s">>, Day(9)),
                    Entry(<<"i">>, <<"s">>, Day(12)),
                    Entry(<<"j">>, <<"s">>, Day(12)),
                    Entry(<<"k">>, <<"s">>, Day(13)),
                    Entry(<<"l">>, <<"s">>, Day(13)) >>]

\* a feed flagged bozo that still has entries: a title that differs from
\* BigFeed's "a" in case and punctuation, a title that is only markup, an
\* entry dated by updated_parsed with a year of three digits, an entry with a
\* malformed date and no summary
SmallFeed ==
    [raises |-> FALSE, bozo |-> TRUE,
     entries |-> << Entry(<<"A","!">>, <<"<","b",">","x","<","/","b",">">>, Day(12)),
                    Entry(<<"<","i",">","<","/","i",">">>, <<"s">>, Day(12)),
                    [Entry(<<"m">>, <<"s">>, <<>>)
                        EXCEPT !.updated_parsed = <<<<999, 1, 1>>>>],
                    [Entry(<<"n">>, <<"s">>, <<<<2024, 13, 1>>>>)
                        EXCEPT !.summary = <<>>,
                               !.description = << <<"t"," ","&","a","m","p",";"," ","u">> >>] >>]

\* every source may raise, fail on an entry or serve either feed; the sources
\* of the first category may also serve an unparseable empty feed
RichWorld ==
    [name \in SourceNames |->
        {RaiseFeed, BadEntryFeed, BigFeed, SmallFeed}
            \cup (IF name \in Range(RSS_FEEDS[1].feeds) THEN {BozoFeed} ELSE {})]

FeedA ==
    [raises |-> FALSE, bozo |-> FALSE,
     entries |-> << Entry(<<"a">>, <<"s">>, Day(10)) >>]

FeedB ==
    [raises |-> FALSE, bozo |-> FALSE,
     entries |-> << Entry(<<"b">>, <<"s">>, Day(11)),
                    Entry(<<"c">>, <<"s">>, Day(11)) >>]

FeedC ==
    [raises |-> FALSE, bozo |-> FALSE,
     entries |-> << Entry(<<"d">>, <<"s">>, Day(11)) >>]

\* two sources are up some of the time, the others are down
SmallWorld ==
    [name \in SourceNames |->
        IF name = "Cyber.Sports.ru" THEN {FeedA, FeedB, RaiseFeed}
        ELSE IF name = "StopGame - Obzory" THEN {FeedC, RaiseFeed}
        ELSE {RaiseFeed}]

-----------------------------------------------------------------------------
(* rss_parser.py *)

IdleAggregation ==
    /\ cat = 1
    /\ feed_idx = 1
    /\ category_news = <<>>
    /\ all_podcasts = <<>>
    /\ podcast_id = 1
    /\ fetched = <<>>

IdleSynthesis ==
    /\ podcasts = <<>>
    /\ idx = 1
    /\ success_count = 0
    /\ error_count = 0
    /\ run_log = <<>>
    /\ json_writes = 0

\* the locals of a program that has ended are gone when the next one starts
ResetAggregation ==
    /\ cat' = 1
    /\ feed_idx' = 1
    /\ category_news' = <<>>
    /\ all_podcasts' = <<>>
    /\ podcast_id' = 1
    /\ fetched' = <<>>

ResetSynthesis ==
    /\ podcasts' = <<>>
    /\ idx' = 1
    /\ success_count' = 0
    /\ error_count' = 0
    /\ run_log' = <<>>
    /\ json_writes' = 0

NoFiles ==
    /\ podcasts_json = [exists |-> FALSE, content |-> <<>>]
    /\ texts = <<>>
    /\ audio = <<>>

NoPure ==
    /\ phase = "none"
    /\ arg = <<>>
    /\ res = <<>>

\* rss_parser.py is started: collect_all_news, lines 263-264
StartAggregation ==
    /\ pc = "idle"
    /\ pc' = "collect"
    /\ ResetAggregation
    /\ ResetSynthesis
    /\ UNCHANGED <<fileVars, pureVars>>

\* lines 271-273: one source of the current category is fetched and merged
FetchSource(world) ==
    /\ pc = "collect"
    /\ feed_idx <= Len(RSS_FEEDS[cat].feeds)
    /\ \E feed \in world[RSS_FEEDS[cat].feeds[feed_idx]] :
          /\ category_news' =
                 category_news \o fetch_feed(feed, RSS_FEEDS[cat].feeds[feed_idx])
          /\ fetched' = Append(fetched, feed)
    /\ feed_idx' = feed_idx + 1
    /\ UNCHANGED <<pc, cat, all_podcasts, podcast_id, fileVars, synthVars, pureVars>>

\* lines 276-300: the category's items are deduplicated, sorted, cut and numbered
ProcessCategory ==
    /\ pc = "collect"
    /\ feed_idx > Len(RSS_FEEDS[cat].feeds)
    /\ LET news == select_news(category_news)
       IN  /\ all_podcasts' =
                  all_podcasts \o podcasts_of(news, RSS_FEEDS[cat].category, podcast_id)
           /\ podcast_id' = podcast_id + Len(news)
    /\ category_news' = <<>>
    /\ feed_idx' = 1
    /\ IF cat = Len(RSS_FEEDS)
       THEN pc' = "save" /\ cat' = cat
       ELSE pc' = "collect" /\ cat' = cat + 1
    /\ UNCHANGED <<fetched, fileVars, synthVars, pureVars>>

\* f"{podcast['title']}. {podcast['description']}"
text_of(podcast) == podcast.title \o <<".", " ">> \o podcast.description

\* save_texts_for_tts: one text per record, under the record's id
save_texts_for_tts(files, records) ==
    LET ids == {records[i].id : i \in DOMAIN records}
    IN  [id \in DOMAIN files \cup ids |->
            IF id \in ids
            THEN text_of(records[CHOOSE i \in DOMAIN records : records[i].id = id])
            ELSE files[id]]

\* lines 349-351: save_podcasts and save_texts_for_tts
SaveOutputs ==
    /\ pc = "save"
    /\ podcasts_json' = [exists |-> TRUE, content |-> all_podcasts]
    /\ texts' = save_texts_for_tts(texts, all_podcasts)
    /\ pc' = "idle"
    /\ UNCHANGED <<aggVars, audio, synthVars, pureVars>>

-----------------------------------------------------------------------------
(* generate_podcast.py *)

\* load_podcasts: the records, none when the file is missing
load_podcasts(file) == IF file.exists THEN file.content ELSE <<>>

\* main, lines 131-141: an empty store ends the run at once
StartSynthesis ==
    /\ pc = "idle"
    /\ podcasts' = load_podcasts(podcasts_json)
    /\ pc' = IF load_podcasts(podcasts_json) = <<>> THEN "idle" ELSE "synth"
    /\ idx' = 1
    /\ success_count' = 0
    /\ error_count' = 0
    /\ run_log' = <<>>
    /\ json_writes' = 0
    /\ ResetAggregation
    /\ UNCHANGED <<fileVars, pureVars>>

\* mutant: the existence check is missing
audio_never_exists(files, podcast) == FALSE

\* generate_audio, lines 61-68: whether the record's audio file already exists
audio_exists(files, podcast) == podcast.id \in DOMAIN files

\* generate_audio, lines 72-77: the text to speak
text_to_speak(podcast) ==
    IF podcast.id \in DOMAIN texts
    THEN strip(texts[podcast.id])
    ELSE text_of(podcast)

\* what gTTS(...).save(path) can do: write the audio; raise before it has
\* opened the file; raise after it has opened the file and written the first
\* part characters of the audio (none, some or all), which are then left
\* behind (generate_audio removes nothing in its except branch)
TtsOutcomes ==
    {[kind |-> "saved", part |-> 0], [kind |-> "raises", part |-> 0]}
        \cup {[kind |-> "raises_after_open", part |-> n] : n \in 0..MaxPart}

\* the file an outcome of the collaborator leaves: none, or <<what it holds>>
tts_file(text, tts) ==
    IF tts.kind = "saved" THEN <<text>>
    ELSE IF tts.kind = "raises_after_open" THEN <<Take(text, tts.part)>>
    ELSE <<>>

\* mutant: a failure of the collaborator is not caught into None
generate_audio_path_on_failure(podcast, read_fails, tts) ==
    IF podcast.id \in DOMAIN audio
    THEN [path |-> AudioPath(podcast.id), called |-> FALSE, written |-> <<>>,
          failed |-> FALSE]
    ELSE IF read_fails /\ podcast.id \in DOMAIN texts
    THEN [path |-> <<>>, called |-> FALSE, written |-> <<>>, failed |-> TRUE]
    ELSE IF text_to_speak(podcast) = <<>>
    THEN [path |-> <<>>, called |-> FALSE, written |-> <<>>, failed |-> TRUE]
    ELSE [path |-> AudioPath(podcast.id), called |-> TRUE,
          written |-> tts_file(text_to_speak(podcast), tts),
          failed |-> tts.kind # "saved"]

\* generate_audio(podcast): what it returns and does. read_fails: reading the
\* text file raises; tts: what the synthesis collaborator does when invoked.
\* [path: <<>> for None, called: whether the collaborator was invoked,
\*  written: <<>> or <<what the audio file holds afterwards>>,
\*  failed: whether the text was empty or an exception was caught]
generate_audio(podcast, read_fails, tts) ==
    IF audio_exists(audio, podcast)
    THEN [path |-> AudioPath(podcast.id), called |-> FALSE, written |-> <<>>,
          failed |-> FALSE]
    ELSE IF read_fails /\ podcast.id \in DOMAIN texts
    THEN [path |-> <<>>, called |-> FALSE, written |-> <<>>, failed |-> TRUE]
    ELSE IF text_to_speak(podcast) = <<>>
    THEN [path |-> <<>>, called |-> FALSE, written |-> <<>>, failed |-> TRUE]
    ELSE [path |-> IF tts.kind = "saved" THEN AudioPath(podcast.id) ELSE <<>>,
          called |-> TRUE,
          written |-> tts_file(text_to_speak(podcast), tts),
          failed |-> tts.kind # "saved"]

\* main, lines 143-149: one record of the loop
SynthesizeRecord ==
    /\ pc = "synth"
    /\ idx <= Len(podcasts)
    /\ \E read_fails \in BOOLEAN, tts \in TtsOutcomes :
          LET podcast == podcasts[idx]
              out     == generate_audio(podcast, read_fails, tts)
          IN  /\ audio' = IF out.written = <<>> THEN audio
                          ELSE [id \in DOMAIN audio \cup {podcast.id} |->
                                   IF id = podcast.id THEN out.written[1]
                                   ELSE audio[id]]
              /\ IF out.path # <<>>
                 THEN /\ podcasts' = [podcasts EXCEPT ![idx].audio = out.path]
                      /\ success_count' = success_count + 1
                      /\ error_count' = error_count
                 ELSE /\ podcasts' = podcasts
                      /\ success_count' = success_count
                      /\ error_count' = error_count + 1
              /\ run_log' = Append(run_log,
                                   [id      |-> podcast.id,
                                    existed |-> audio_exists(audio, podcast),
                                    held    |-> IF podcast.id \in DOMAIN audio
                                                THEN <<audio[podcast.id]>>
                                                ELSE <<>>,
                                    called  |-> out.called,
                                    wrote   |-> out.written # <<>>,
                                    failed  |-> out.failed,
                                    ok      |-> out.path # <<>>])
    /\ idx' = idx + 1
    /\ UNCHANGED <<pc, aggVars, podcasts_json, texts, json_writes, pureVars>>

\* main, line 152: update_podcasts_json
FinishSynthesis ==
    /\ pc = "synth"
    /\ idx > Len(podcasts)
    /\ podcasts_json' = [exists |-> TRUE, content |-> podcasts]
    /\ json_writes' = json_writes + 1
    /\ pc' = "idle"
    /\ UNCHANGED <<aggVars, texts, audio, podcasts, idx, success_count,
                   error_count, run_log, pureVars>>

-----------------------------------------------------------------------------
(* Specifications *)

\* one execution of rss_parser.py in a fresh checkout, every source free to
\* fail or to serve any feed
Init ==
    /\ pc = "collect"
    /\ IdleAggregation
    /\ IdleSynthesis
    /\ NoFiles
    /\ NoPure

Next ==
    \/ FetchSource(RichWorld)
    \/ ProcessCategory
    \/ SaveOutputs

Spec == Init /\ [][Next]_vars

\* any sequence of executions of rss_parser.py and generate_podcast.py
InitLifecycle ==
    /\ pc = "idle"
    /\ IdleAggregation
    /\ IdleSynthesis
    /\ NoFiles
    /\ NoPure

NextLifecycle ==
    \/ StartAggregation
    \/ FetchSource(SmallWorld)
    \/ ProcessCategory
    \/ SaveOutputs
    \/ StartSynthesis
    \/ SynthesizeRecord
    \/ FinishSynthesis

SpecLifecycle == InitLifecycle /\ [][NextLifecycle]_vars

-----------------------------------------------------------------------------
(* Properties of one aggregation run (Spec) *)

\* the categories whose records are complete
Processed == {c \in DOMAIN RSS_FEEDS : c < cat \/ pc # "collect"}

\* the response the s-th source of category c gave in this run
RECURSIVE Offset(_)
Offset(c) == IF c = 1 THEN 0 ELSE Offset(c - 1) + Len(RSS_FEEDS[c - 1].feeds)

FetchedOf(c, s) == fetched[Offset(c) + s]

\* the records of category c, in output order
RecordsOf(c) ==
    SelectSeq(all_podcasts, LAMBDA r : r.category = RSS_FEEDS[c].category)

\* a response that makes its source fail: the call raised, the feed is
\* unparseable and empty, or one of the entries taken raises
Failing(feed) ==
    \/ feed.raises
    \/ feed.bozo /\ feed.entries = <<>>
    \/ \E i \in DOMAIN feed.entries :
          i <= 2 * MAX_NEWS_PER_CATEGORY /\ feed.entries[i].raises

RECURSIVE MergedFrom(_, _)
MergedFrom(c, s) ==
    IF s > Len(RSS_FEEDS[c].feeds) THEN <<>>
    ELSE fetch_feed(FetchedOf(c, s), RSS_FEEDS[c].feeds[s]) \o MergedFrom(c, s + 1)

\* the merged, deduplicated list of a processed category: configured source
\* order, then feed order
Deduplicated(c) == remove_duplicates(MergedFrom(c, 1))

\* C1: the records have the ids 1, 2, ..., n in output order, across category
\* boundaries and categories without records
C1_IdsSequential ==
    \A i \in DOMAIN all_podcasts : all_podcasts[i].id = i

\* a finished run in which the second category has no record and the two
\* around it have some
C1_Witness ==
    /\ pc = "save"
    /\ Len(RecordsOf(1)) > 0
    /\ Len(RecordsOf(2)) = 0
    /\ Len(RecordsOf(3)) > 0

\* C2: no category has more than MAX_NEWS_PER_CATEGORY records
C2_AtMostMaxPerCategory ==
    \A c \in DOMAIN RSS_FEEDS : Len(RecordsOf(c)) <= MAX_NEWS_PER_CATEGORY

\* a category with more unique items than the maximum, cut to the maximum
C2_Witness ==
    /\ pc = "save"
    /\ \E c \in DOMAIN RSS_FEEDS :
          /\ Len(Deduplicated(c)) > MAX_NEWS_PER_CATEGORY
          /\ Len(RecordsOf(c)) = MAX_NEWS_PER_CATEGORY

\* the titles, normalised, that the sources of category c that did not fail
\* carry among the entries taken
TitlesServed(c) ==
    {normalize_title(clean_html(Get(FetchedOf(c, s).entries[i].title, <<>>))) :
        <<s, i>> \in {p \in (DOMAIN RSS_FEEDS[c].feeds) \X (1..(2 * MAX_NEWS_PER_CATEGORY)) :
                        /\ ~Failing(FetchedOf(c, p[1]))
                        /\ p[2] \in DOMAIN FetchedOf(c, p[1]).entries
                        /\ clean_html(Get(FetchedOf(c, p[1]).entries[p[2]].title,
                                          <<>>)) # <<>>}}

\* C4: a failing source contributes no item and stops nothing: no record
\* names it as its source, every source is still fetched, and each processed
\* category has as many records as the titles of its other sources allow
C4_FailureIsolated ==
    /\ \A c \in Processed : \A s \in DOMAIN RSS_FEEDS[c].feeds :
          Failing(FetchedOf(c, s)) =>
             \A i \in DOMAIN all_podcasts :
                all_podcasts[i].source # RSS_FEEDS[c].feeds[s]
    /\ pc = "collect" =>
          /\ Len(fetched) = Offset(cat) + feed_idx - 1
          /\ \A k \in DOMAIN fetched : k > Offset(cat) /\ Failing(fetched[k]) =>
                \A i \in DOMAIN category_news :
                   category_news[i].source # RSS_FEEDS[cat].feeds[k - Offset(cat)]
    /\ pc # "collect" => Len(fetched) = Offset(Len(RSS_FEEDS) + 1)
    /\ \A c \in Processed :
          Len(RecordsOf(c)) =
             Min({MAX_NEWS_PER_CATEGORY, Cardinality(TitlesServed(c))})

\* a finished run in which the first source of the first category failed on
\* one of its entries, the second source of that category has records in the
\* output, and so has a later category
C4_Witness ==
    /\ pc = "save"
    /\ FetchedOf(1, 1) = BadEntryFeed
    /\ \E i \in DOMAIN all_podcasts :
          all_podcasts[i].source = RSS_FEEDS[1].feeds[2]
    /\ Failing(FetchedOf(2, 1)) /\ Failing(FetchedOf(2, 2))
    /\ Len(RecordsOf(3)) > 0

\* where the record or item x stands in the deduplicated list D
PlaceIn(D, x) ==
    CHOOSE i \in DOMAIN D : D[i].title = x.title /\ D[i].source = x.source

\* the number a string of digits denotes
RECURSIVE Number(_)
Number(digits) ==
    IF digits = <<>> THEN 0
    ELSE 10 * Number(SubSeq(digits, 1, Len(digits) - 1))
            + (Ord(digits[Len(digits)]) - 48)

\* the day <<year, month, day>> a record's date denotes
DayOf(date) ==
    LET dashes == {i \in DOMAIN date : date[i] = "-"}
        d1     == Min(dashes)
        d2     == Max(dashes)
    IN  << Number(SubSeq(date, 1, d1 - 1)),
           Number(SubSeq(date, d1 + 1, d2 - 1)),
           Number(SubSeq(date, d2 + 1, Len(date))) >>

\* the date a is an earlier day than the date b
Earlier(a, b) ==
    LET x == DayOf(a)
        y == DayOf(b)
    IN  \/ x[1] < y[1]
        \/ x[1] = y[1] /\ x[2] < y[2]
        \/ x[1] = y[1] /\ x[2] = y[2] /\ x[3] < y[3]

\* x comes before y in the order of C9: the later date first, and for equal
\* dates the earlier place in the deduplicated list D
Before(D, x, y) ==
    \/ Earlier(y.date, x.date)
    \/ x.date = y.date /\ PlaceIn(D, x) < PlaceIn(D, y)

\* R is D's first MAX_NEWS_PER_CATEGORY items in the order of C9
FirstOfOrder(R, D) ==
    /\ Len(R) = Min({MAX_NEWS_PER_CATEGORY, Len(D)})
    /\ \A i \in DOMAIN R : \E k \in DOMAIN D :
          /\ D[k].title = R[i].title
          /\ D[k].source = R[i].source
          /\ D[k].date = R[i].date
    /\ \A i, j \in DOMAIN R : i < j => Before(D, R[i], R[j])
    /\ \A k \in DOMAIN D :
          (\A i \in DOMAIN R : PlaceIn(D, R[i]) # k) =>
             \A i \in DOMAIN R : Before(D, R[i], D[k])

\* C9: the records of a category are items of its deduplicated list, ordered
\* by date non-increasing with equal dates in the order of that list, and
\* they are the first MAX_NEWS_PER_CATEGORY of that order
C9_SortedStableCapped ==
    \A c \in Processed : FirstOfOrder(RecordsOf(c), Deduplicated(c))

-----------------------------------------------------------------------------
(* Properties of the synthesis pipeline (SpecLifecycle) *)

AllAudioSet(records) == \A i \in DOMAIN records : records[i].audio # <<>>

\* C5: a record whose audio file exists when it is processed is skipped: the
\* collaborator is not invoked, the file keeps what it held, and the record's
\* audio field is the path of its id; a run over a store whose records all have
\* their audio (a second run after a fully successful one) invokes the
\* collaborator for no record and changes no record
C5_ExistingAudioSkipped ==
    /\ \A k \in DOMAIN run_log :
          run_log[k].existed =>
             /\ ~run_log[k].called
             /\ run_log[k].id \in DOMAIN audio
             /\ <<audio[run_log[k].id]>> = run_log[k].held
             /\ podcasts[k].audio = <<"audio/podcast_", podcasts[k].id, ".mp3">>
    /\ (pc = "synth" /\ AllAudioSet(podcasts_json.content)) =>
          /\ \A k \in DOMAIN run_log : ~run_log[k].called
          /\ podcasts = podcasts_json.content

\* the end of a run over a store of two or more records that all had their
\* audio: every record was skipped
C5_Witness ==
    /\ pc = "synth"
    /\ idx > Len(podcasts)
    /\ Len(podcasts) >= 2
    /\ AllAudioSet(podcasts_json.content)
    /\ \A k \in DOMAIN run_log : run_log[k].existed

\* the records of the current synthesis run whose synthesis failed: the text
\* was empty, reading it raised, or the collaborator raised
FailedRecords == {k \in DOMAIN run_log : run_log[k].failed}

\* C6: a record whose synthesis fails keeps an empty audio field and the run
\* goes on: the error tally is the number of failed records, the two tallies
\* add up to the records processed, and a finished run has processed every
\* record and written the store once
C6_FailureCounted ==
    /\ \A k \in FailedRecords : podcasts[k].audio = <<>>
    /\ error_count = Cardinality(FailedRecords)
    /\ success_count + error_count = Len(run_log)
    /\ pc = "synth" => json_writes = 0 /\ Len(run_log) = idx - 1
    /\ (pc = "idle" /\ podcasts # <<>>) =>
          /\ Len(run_log) = Len(podcasts)
          /\ json_writes = 1
          /\ podcasts_json.content = podcasts

\* a finished run whose first record failed leaving an audio file behind,
\* whose second failed leaving none and whose third was synthesized
C6_Witness ==
    /\ pc = "idle"
    /\ json_writes = 1
    /\ Len(run_log) >= 3
    /\ 1 \in FailedRecords /\ run_log[1].called /\ run_log[1].wrote
    /\ 2 \in FailedRecords /\ ~run_log[2].wrote
    /\ run_log[3].called /\ run_log[3].wrote /\ 3 \notin FailedRecords

\* C10: a persisted record with a non-empty audio field references an audio
\* file that was synthesized from that record's own text
C10_AudioIsOfRecord ==
    \A i \in DOMAIN podcasts_json.content :
       LET r == podcasts_json.content[i]
       IN  r.audio # <<>> =>
              /\ r.id \in DOMAIN audio
              /\ audio[r.id] = r.title \o <<".", " ">> \o r.description

-----------------------------------------------------------------------------
(* The text functions on their own *)

IdleMain ==
    /\ pc = "idle"
    /\ IdleAggregation
    /\ IdleSynthesis
    /\ NoFiles

\* the concatenations of at most n of the tokens
RECURSIVE Concats(_, _)
Concats(tokens, n) ==
    IF n = 0 THEN {<<>>}
    ELSE Concats(tokens, n - 1)
            \cup {p \o t : p \in Concats(tokens, n - 1), t \in tokens}

CleanTokens ==
    { <<"<">>, <<">">>, <<"b">>, <<" ">>, <<"&">>, <<";">>,
      <<"&","l","t",";">>, <<"&","g","t",";">>, <<"&","a","m","p",";">>,
      <<"l","t",";">>, <<"<","b",">">> }

InitClean ==
    /\ IdleMain
    /\ phase = "input"
    /\ arg \in Concats(CleanTokens, MaxTokens)
    /\ res = <<>>

Clean ==
    /\ phase = "input"
    /\ phase' = "done"
    /\ res' = clean_html(arg)
    /\ UNCHANGED <<pc, aggVars, fileVars, synthVars, arg>>

SpecClean == InitClean /\ [][Clean]_vars

\* s holds a tag: '<', one or more characters other than '>', and '>'
HasTag(s) ==
    \E i, j \in DOMAIN s :
       /\ j >= i + 2
       /\ s[i] = "<"
       /\ s[j] = ">"
       /\ \A k \in (i + 1)..(j - 1) : s[k] # ">"

\* s holds an entity escape: '&' and the name of an entity
HasEntity(s) ==
    \E i \in DOMAIN s : \E e \in Html5 :
       /\ s[i] = "&"
       /\ i + Len(e[1]) <= Len(s)
       /\ SubSeq(s, i + 1, i + Len(e[1])) = e[1]

\* C8: the output of clean_html holds no tag and no entity escape
C8_NoTagNoEntity ==
    phase = "done" => ~HasTag(res) /\ ~HasEntity(res)

\* descriptions around the limit: a word, a space or none, a second word,
\* with or without markup around them
LongTexts ==
    { open \o Rep("a", n) \o sep \o Rep("b", m) :
        open \in {<<>>, <<"<","p",">">>},
        n \in {0, 1, 250, 496, 497, 498, 499, 500, 501, 600},
        sep \in {<<>>, <<" ">>},
        m \in {0, 1, 2, 3, 4, 100} }

InitFetch ==
    /\ IdleMain
    /\ phase = "input"
    /\ arg \in { [raises |-> FALSE, bozo |-> FALSE,
                   entries |-> << Entry(<<"t">>, text, Day(12)) >>] :
                  text \in LongTexts }
    /\ res = <<>>

Fetch ==
    /\ phase = "input"
    /\ phase' = "done"
    /\ res' = fetch_feed(arg, RSS_FEEDS[1].feeds[1])
    /\ UNCHANGED <<pc, aggVars, fileVars, synthVars, arg>>

SpecFetch == InitFetch /\ [][Fetch]_vars

\* C7: every item fetch_feed produces has a description of at most 500
\* characters, the ellipsis counted
C7_DescriptionAtMostMax ==
    phase = "done" =>
       \A i \in DOMAIN res : Len(res[i].description) <= MaxLength

DedupeTitles ==
    { <<"A","b","!">>, <<"a","b">>, <<"a","_","b">>,
      <<"."," ","a">>, <<" ","a">>, <<"a"," ","b">> }

DedupeItems ==
    { [title |-> t, description |-> <<"s">>, date |-> strftime(Now), source |-> n] :
        t \in DedupeTitles, n \in Range(RSS_FEEDS[1].feeds) }

RECURSIVE ListsOf(_, _)
ListsOf(items, n) ==
    IF n = 0 THEN {<<>>}
    ELSE ListsOf(items, n - 1)
            \cup {Append(l, x) : l \in ListsOf(items, n - 1), x \in items}

InitDedupe ==
    /\ IdleMain
    /\ phase = "input"
    /\ arg \in ListsOf(DedupeItems, MaxItems)
    /\ res = <<>>

Dedupe ==
    /\ phase = "input"
    /\ phase' = "done"
    /\ res' = remove_duplicates(arg)
    /\ UNCHANGED <<pc, aggVars, fileVars, synthVars, arg>>

SpecDedupe == InitDedupe /\ [][Dedupe]_vars

\* the characters of s at the positions in K, in order
RECURSIVE AtPositions(_, _)
AtPositions(s, K) ==
    IF K = {} THEN <<>>
    ELSE <<s[Min(K)]>> \o AtPositions(s, K \ {Min(K)})

\* the title lower-cased, trimmed of whitespace at its ends, and then without
\* the characters that Keep does not keep
NormalizedBy(Keep(_), title) ==
    LET l     == lower(title)
        solid == {i \in DOMAIN l : ~IsSpace(l[i])}
    IN  IF solid = {} THEN <<>>
        ELSE AtPositions(l, {i \in Min(solid)..Max(solid) : Keep(l[i])})

IsAlnum(c) == c \in Range(LowerLetters) \cup Range(UpperLetters) \cup Range(Digits)

\* the normalised title of the claim: alphanumerics and spaces are kept
AlnumOrSpace(c) == IsAlnum(c) \/ c = " "

\* the normalised title of the code: word characters (alphanumerics and the
\* underscore) and whitespace are kept
WordOrWhitespace(c) == IsAlnum(c) \/ c = "_" \/ IsSpace(c)

\* the positions of the items that are the first of their normalised title
FirstPositions(Keep(_), items) ==
    {i \in DOMAIN items :
        \A j \in 1..(i - 1) :
           NormalizedBy(Keep, items[j].title) # NormalizedBy(Keep, items[i].title)}

\* two titles that differ in nothing but case and the characters Keep drops
DifferOnlyInCaseAnd(Keep(_), t, u) ==
    AtPositions(lower(t), {i \in DOMAIN t : Keep(lower(t)[i])})
       = AtPositions(lower(u), {i \in DOMAIN u : Keep(lower(u)[i])})

\* C3 as stated: remove_duplicates returns the items that are the first of
\* their normalised title (lower-cased, trimmed, everything but alphanumerics
\* and spaces removed), in input order, and of two titles that differ only in
\* case or punctuation one is dropped
C3_AsStated ==
    phase = "done" =>
       /\ res = AtPositions(arg, FirstPositions(AlnumOrSpace, arg))
       /\ \A i, j \in DOMAIN arg :
             (i < j /\ DifferOnlyInCaseAnd(AlnumOrSpace, arg[i].title, arg[j].title))
                => ~(i \in FirstPositions(AlnumOrSpace, arg)
                       /\ j \in FirstPositions(AlnumOrSpace, arg))

\* C3, amended: remove_duplicates returns the items that are the first of
\* their normalised title, in input order, the normalised title being the
\* title lower-cased, then trimmed of whitespace at its ends, then without the
\* characters that are neither word characters (alphanumerics, underscore) nor
\* whitespace; of two titles without whitespace at their ends that differ only
\* in case or in punctuation other than the underscore, one is dropped
C3_FirstOfNormalizedTitle ==
    phase = "done" =>
       /\ res = AtPositions(arg, FirstPositions(WordOrWhitespace, arg))
       /\ \A i, j \in DOMAIN arg :
             ( /\ i < j
               /\ strip(arg[i].title) = arg[i].title
               /\ strip(arg[j].title) = arg[j].title
               /\ DifferOnlyInCaseAnd(WordOrWhitespace, arg[i].title, arg[j].title) )
                => ~(\E k, l \in DOMAIN res :
                        k < l /\ res[k] = arg[i] /\ res[l] = arg[j])

\* "Ab!" and "ab" of two sources collapse onto the first, "a_b" stays
C3_Witness ==
    /\ phase = "done"
    /\ Len(arg) = 3
    /\ arg[1].title = <<"A","b","!">>
    /\ arg[2].title = <<"a","b">>
    /\ arg[3].title = <<"a","_","b">>
    /\ arg[1].source # arg[2].source
    /\ res = <<arg[1], arg[3]>>

=============================================================================
